---- MODULE Spec2Model ----
(***************************************************************************)
(* The auth/token subsystem of the restaurant management backend:          *)
(*   helpers/tokenHelper.go   GenerateAllTokens, UpdateAllTokens,          *)
(*                            ValidateToken                                *)
(*   middleware (Authentication), routes (UserRoutes), main, and the       *)
(*   SignUp / Login handlers of the user controller.                       *)
(*                                                                         *)
(* Time is Unix time in seconds, as returned by time.Now().Unix().         *)
(* A token string is the sequence of its dot-separated segments            *)
(* (strings.Split(s, ".")); a segment is either text that is not           *)
(* base64url ([raw |-> ..]) or the base64url encoding of some bytes        *)
(* ([b64 |-> bytes]); bytes are a JSON header object, a JSON claims        *)
(* object, a MAC or junk.  HMAC is modelled symbolically: the MAC of a     *)
(* message under a key is the record of hash, key and message, so two      *)
(* MACs are equal iff hash, key and message are.                           *)
(***************************************************************************)
EXTENDS Integers, Sequences, FiniteSets, TLC

VARIABLES
    now,          \* the wall clock, time.Now().Unix()
    SECRET_KEY,   \* helper.SECRET_KEY, read once from the environment
    users,        \* the "user" collection, in insertion (natural) order
    req,          \* the request being served: route, headers, gin context, response
    pair,         \* token service harness: the last pair GenerateAllTokens returned
    call,         \* token service harness: the last ValidateToken call and its result
    calls,        \* the UpdateAllTokens calls in progress, one per caller
    history,      \* the writes UpdateOne has applied to the collection, in order
    conns         \* the requests served concurrently, one per connection

vars == <<now, SECRET_KEY, users, req, pair, call, calls, history, conns>>

----------------------------------------------------------------------------
(* Program constants *)

Hour == 3600
AccessHours == 24
RefreshHours == 168
StatusOK == 200
StatusBadRequest == 400
StatusInternalServerError == 500

(* Bounds of the model *)

MaxElapsed == 1      \* seconds the clock may advance between two reads inside one call
NumCallers == 2      \* goroutines that may be inside UpdateAllTokens at once
MaxWrites == 3       \* UpdateAllTokens calls made against one collection
NumConns == 2        \* connections served at once

----------------------------------------------------------------------------
(* encoding/json and base64url, as jwt-go uses them *)

\* The zero value of SignedDetails.
ZeroSignedDetails ==
    [Email |-> "", First_name |-> "", Last_name |-> "", Uid |-> "", ExpiresAt |-> 0]

\* json.Marshal of a *SignedDetails: the four untagged fields keep their Go
\* names, the embedded StandardClaims.ExpiresAt is written as "exp"
\* (omitempty: 0 stands for an absent key).
MarshalClaims(c) ==
    [is |-> "claims", Email |-> c.Email, First_name |-> c.First_name,
     Last_name |-> c.Last_name, Uid |-> c.Uid, exp |-> c.ExpiresAt]

\* json.Marshal of the token header {"alg": .., "typ": "JWT"}.
MarshalHeader(alg) == [is |-> "header", alg |-> alg, typ |-> "JWT"]

IsJSONObject(bytes) == bytes.is \in {"header", "claims"}

\* json decoding of claim bytes into a *SignedDetails: keys that are
\* not fields of the struct are ignored, absent keys leave the zero value.
UnmarshalClaims(bytes) ==
    IF bytes.is = "claims"
    THEN [Email |-> bytes.Email, First_name |-> bytes.First_name,
          Last_name |-> bytes.Last_name, Uid |-> bytes.Uid, ExpiresAt |-> bytes.exp]
    ELSE ZeroSignedDetails

EncodeSegment(bytes) == [b64 |-> bytes]

RawSegment(s) == [raw |-> s]

DecodeSegment(seg) ==
    IF "b64" \in DOMAIN seg
    THEN [ok |-> TRUE, bytes |-> seg.b64]
    ELSE [ok |-> FALSE, bytes |-> [is |-> "junk"]]

----------------------------------------------------------------------------
(* github.com/dgrijalva/jwt-go, the parts the helper calls *)

HMACAlgs == {"HS256", "HS384"}
HashOf(alg) == IF alg = "HS256" THEN "SHA256" ELSE "SHA384"

\* hmac.New(hash, key) over the signing string parts[0] + "." + parts[1].
HMAC(hash, key, msg) == [is |-> "mac", hash |-> hash, key |-> key, msg |-> msg]

\* Token.SignedString for an HMAC method and a []byte key: never fails.
SignedString(alg, claims, key) ==
    LET h == EncodeSegment(MarshalHeader(alg))
        c == EncodeSegment(MarshalClaims(claims))
    IN  <<h, c, EncodeSegment(HMAC(HashOf(alg), key, <<h, c>>))>>

NoErr == ""
ErrSegments == "token contains an invalid number of segments"
ErrBase64 == "illegal base64 data"
ErrJSON == "invalid character"
ErrAlgUnavailable == "signing method (alg) is unavailable."
ErrAlgUnspecified == "signing method (alg) is unspecified."
ErrExpiredBy == "token is expired by"
ErrSignatureInvalid == "signature is invalid"
ErrNoneDisallowed == "'none' signature type is not allowed"

NilToken == [isNil |-> TRUE]
NilClaims == [isNil |-> TRUE]

\* A *jwt.Token; Claims is NilClaims while the interface field is still nil.
Token(claims, alg) == [isNil |-> FALSE, Claims |-> claims, Method |-> alg]

\* StandardClaims.Valid at library time t: only exp is ever set by this
\* program; verifyExp accepts exp = 0 (absent) and now <= exp.
ClaimsValid(c, t) ==
    IF c.ExpiresAt # 0 /\ t > c.ExpiresAt THEN ErrExpiredBy ELSE NoErr

\* SigningMethod.Verify(signingString, signature, key) with a []byte key.
Verify(alg, msg, sigSeg, key) ==
    IF alg = "none" THEN ErrNoneDisallowed
    ELSE LET d == DecodeSegment(sigSeg)
         IN  IF ~d.ok THEN ErrBase64
             ELSE IF d.bytes = HMAC(HashOf(alg), key, msg) THEN NoErr
             ELSE ErrSignatureInvalid

\* Parser.ParseUnverified: split, decode header and claims, look up the method.
ParseUnverified(tokenString) ==
    IF Len(tokenString) # 3
    THEN [token |-> NilToken, err |-> ErrSegments]
    ELSE LET hd == DecodeSegment(tokenString[1])
             cd == DecodeSegment(tokenString[2])
         IN  IF ~hd.ok THEN [token |-> Token(NilClaims, ""), err |-> ErrBase64]
             ELSE IF ~IsJSONObject(hd.bytes)
                  THEN [token |-> Token(NilClaims, ""), err |-> ErrJSON]
             ELSE IF ~cd.ok
                  THEN [token |-> Token(ZeroSignedDetails, ""), err |-> ErrBase64]
             ELSE IF ~IsJSONObject(cd.bytes)
                  THEN [token |-> Token(ZeroSignedDetails, ""), err |-> ErrJSON]
             ELSE LET claims == UnmarshalClaims(cd.bytes)
                  IN  IF hd.bytes.is # "header"
                      THEN [token |-> Token(claims, ""), err |-> ErrAlgUnspecified]
                      ELSE IF hd.bytes.alg \notin HMACAlgs \cup {"none"}
                      THEN [token |-> Token(claims, ""), err |-> ErrAlgUnavailable]
                      ELSE [token |-> Token(claims, hd.bytes.alg), err |-> NoErr]

\* Parser.ParseWithClaims(tokenString, &SignedDetails{}, keyFunc) with the
\* helper's keyFunc, which returns []byte(key) and no error; t is the
\* library's reading of the clock.  The signature error, when there is
\* one, replaces the claims error as the error's Inner.
ParseWithClaims(tokenString, key, t) ==
    LET u == ParseUnverified(tokenString)
    IN  IF u.err # NoErr THEN u
        ELSE LET cerr == ClaimsValid(u.token.Claims, t)
                 serr == Verify(u.token.Method,
                                <<tokenString[1], tokenString[2]>>,
                                tokenString[3], key)
             IN  [token |-> u.token,
                  err |-> IF serr # NoErr THEN serr ELSE cerr]

----------------------------------------------------------------------------
(* helpers/tokenHelper.go *)

\* GenerateAllTokens giving the refresh token the access token's lifetime.
GenerateAllTokens_SameLifetime(email, firstName, lastName, uid, key, tA, tR) ==
    LET claims == [Email |-> email, First_name |-> firstName,
                   Last_name |-> lastName, Uid |-> uid,
                   ExpiresAt |-> tA + AccessHours * Hour]
        refreshClaims == [ZeroSignedDetails EXCEPT
                             !.ExpiresAt = tR + AccessHours * Hour]
    IN  [token |-> SignedString("HS256", claims, key),
         refreshToken |-> SignedString("HS256", refreshClaims, key)]

\* GenerateAllTokens putting the uid into the refresh claims as well.
GenerateAllTokens_RefreshWithUid(email, firstName, lastName, uid, key, tA, tR) ==
    LET claims == [Email |-> email, First_name |-> firstName,
                   Last_name |-> lastName, Uid |-> uid,
                   ExpiresAt |-> tA + AccessHours * Hour]
        refreshClaims == [ZeroSignedDetails EXCEPT
                             !.Uid = uid,
                             !.ExpiresAt = tR + RefreshHours * Hour]
    IN  [token |-> SignedString("HS256", claims, key),
         refreshToken |-> SignedString("HS256", refreshClaims, key)]

\* GenerateAllTokens with First_name and Last_name filled from each other's
\* argument.
GenerateAllTokens_NamesSwapped(email, firstName, lastName, uid, key, tA, tR) ==
    LET claims == [Email |-> email, First_name |-> lastName,
                   Last_name |-> firstName, Uid |-> uid,
                   ExpiresAt |-> tA + AccessHours * Hour]
        refreshClaims == [ZeroSignedDetails EXCEPT
                             !.ExpiresAt = tR + RefreshHours * Hour]
    IN  [token |-> SignedString("HS256", claims, key),
         refreshToken |-> SignedString("HS256", refreshClaims, key)]

\* GenerateAllTokens; tA and tR are the two readings of time.Now().
GenerateAllTokens(email, firstName, lastName, uid, key, tA, tR) ==
    LET claims == [Email |-> email, First_name |-> firstName,
                   Last_name |-> lastName, Uid |-> uid,
                   ExpiresAt |-> tA + AccessHours * Hour]
        refreshClaims == [ZeroSignedDetails EXCEPT
                             !.ExpiresAt = tR + RefreshHours * Hour]
    IN  [token |-> SignedString("HS256", claims, key),
         refreshToken |-> SignedString("HS256", refreshClaims, key)]

\* What SignedString returns: the token and no error, or "" and the
\* signing method's error.
ErrHashUnavailable == "the requested hash function is unavailable"
Signed(ok, tokenString) ==
    IF ok THEN [s |-> tokenString, err |-> NoErr]
    ELSE [s |-> <<>>, err |-> ErrHashUnavailable]

\* The end of GenerateAllTokens, lines 75-84, for a pair g and the outcomes
\* of the two signings: err is assigned by the access signing and again by
\* the refresh signing, and tested once after both.
Return(g, okToken, okRefresh) ==
    LET token == Signed(okToken, g.token)
        refreshToken == Signed(okRefresh, g.refreshToken)
        err == refreshToken.err
    IN  IF err # NoErr
        THEN [panic |-> TRUE, token |-> <<>>, refreshToken |-> <<>>]
        ELSE [panic |-> FALSE, token |-> token.s, refreshToken |-> refreshToken.s]

\* No expiry test of its own: the one inside ParseWithClaims is left to
\* reject expired tokens.
IsExpired_Unchecked(expiresAt, t) == FALSE

\* The expiry test with <= for <.
IsExpired_AtOrAfter(expiresAt, t) == expiresAt <= t

\* The expiry test of ValidateToken, line 169.
IsExpired(expiresAt, t) == expiresAt < t

\* A validation that also looks the token up in the user collection and
\* accepts only a token some document holds.
ValidateToken_StoredOnly(signedToken, key, t1, t2) ==
    LET p == ParseWithClaims(signedToken, key, t1)
        bad == \/ p.token.isNil
               \/ p.token.Claims = NilClaims
               \/ p.err # NoErr
               \/ \A i \in 1..Len(users) : users[i].token # signedToken
    IN  IF bad
        THEN [panic |-> FALSE, claims |-> NilClaims, msg |-> "the token is invalid"]
        ELSE [panic |-> FALSE, claims |-> p.token.Claims, msg |-> ""]

\* ValidateToken; t1 is the library's reading of the clock inside
\* ParseWithClaims, t2 the helper's own reading at the expiry test.
\* The result is a panic (nil pointer dereference of token.Claims when
\* the parser returned a nil token) or the pair (claims, msg).
ValidateToken(signedToken, key, t1, t2) ==
    LET p == ParseWithClaims(signedToken, key, t1)
    IN  IF p.token.isNil
        THEN [panic |-> TRUE, claims |-> NilClaims, msg |-> ""]
        ELSE IF p.token.Claims = NilClaims
        THEN [panic |-> FALSE, claims |-> NilClaims,
              msg |-> IF p.err # NoErr THEN p.err ELSE "the token is invalid"]
        ELSE IF IsExpired(p.token.Claims.ExpiresAt, t2)
        THEN [panic |-> FALSE, claims |-> p.token.Claims,
              msg |-> IF p.err # NoErr THEN p.err ELSE "token is expired"]
        ELSE [panic |-> FALSE, claims |-> p.token.Claims, msg |-> ""]

----------------------------------------------------------------------------
(* The clock and the inputs of the token service *)

\* The instants at which something happens: the start, one second later,
\* and the neighbourhoods of the two expiries of a pair issued at either.
Offsets ==
    {0, 1}
    \cup {AccessHours * Hour + d : d \in {-60, -1, 0, 1, 2, 60}}
    \cup {RefreshHours * Hour + d : d \in {-1, 0, 1, 2}}

Instants == {1 + o : o \in Offsets}

\* The instants between which the server's requests arrive: the start, one
\* second later, and, for an access token issued at the start, one
\* minute before its expiry, its expiry, and one second and one minute
\* after it.
ServerInstants ==
    {1, 2} \cup {1 + AccessHours * Hour + d : d \in {-60, 0, 1, 60}}

\* The readings a second call of time.Now() may give after a first
\* reading t.
LaterReads(t) == {u \in Instants : t <= u /\ u <= t + MaxElapsed}

\* os.Getenv("SECRET_KEY"): unset (empty) or set.
Keys == {"", "s3cret"}
ForeignKey == "attacker"

Identities ==
    { [email |-> "a@x.io", firstName |-> "Ann", lastName |-> "Lee", uid |-> "1"],
      [email |-> "b@x.io", firstName |-> "Lee", lastName |-> "Ann", uid |-> "2"],
      [email |-> "", firstName |-> "", lastName |-> "", uid |-> ""] }

\* The identities of accounts: those with a user_id.
Subjects == {id \in Identities : id.uid # ""}

Junk == EncodeSegment([is |-> "junk"])

\* A header and claims signed with HS256 under key k.
Resign(h, c, k) == <<h, c, EncodeSegment(HMAC("SHA256", k, <<h, c>>))>>

\* The claims segment c with its expiry moved to e and its uid to u.
Rewrite(c, u, e) == EncodeSegment([c.b64 EXCEPT !.Uid = u, !.exp = e])

\* Strings that are not three-segment tokens.
Garbage ==
    { <<RawSegment("garbage")>>,
      <<RawSegment("Bearer abc"), RawSegment("def")>>,
      <<Junk, Junk, Junk, Junk>> }

\* What a client can make of a token b it holds.
Variants(b) ==
    { b,
      Resign(b[1], b[2], ForeignKey),                    \* foreign signature
      <<b[1], b[2], Junk>>,                              \* tampered signature bytes
      <<b[1], b[2], RawSegment("%%")>>,                  \* signature not base64
      <<b[1], Rewrite(b[2], "2", b[2].b64.exp), b[3]>>,   \* another uid, old signature
      <<b[1], Rewrite(b[2], b[2].b64.Uid, b[2].b64.exp + Hour), b[3]>>,
      <<RawSegment("%%"), b[2], b[3]>>,                  \* header not base64
      <<Junk, b[2], b[3]>>,                              \* header not JSON
      <<b[1], RawSegment("%%"), b[3]>>,                  \* claims not base64
      <<b[1], Junk, b[3]>>,                              \* claims not JSON
      <<b[2], b[2], b[3]>>,                              \* header without alg
      <<EncodeSegment(MarshalHeader("none")), b[2], b[3]>>,
      <<EncodeSegment(MarshalHeader("XS999")), b[2], b[3]>>,
      <<b[1], b[2]>>,                                    \* signature cut off
      <<b[1], b[2], b[3], b[3]>> }

\* Tokens signed with the configured key that GenerateAllTokens does not
\* make: no exp claim, and the HS384 method.
OtherSigned(key) ==
    { SignedString("HS256", ZeroSignedDetails, key),
      SignedString("HS384",
                   [ZeroSignedDetails EXCEPT !.Uid = "1",
                                             !.ExpiresAt = 1 + AccessHours * Hour],
                   key) }

NoPair == [isNil |-> TRUE]
NoCall == [isNil |-> TRUE]

TokenInputs ==
    Garbage \cup OtherSigned(SECRET_KEY)
    \cup (IF pair = NoPair \/ pair.panic THEN {}
          ELSE IF pair.token = <<>> THEN {pair.refreshToken}
          ELSE Variants(pair.token) \cup {pair.refreshToken})

----------------------------------------------------------------------------
(* main and routes: the router *)

Use(h) == [op |-> "Use", route |-> "", h |-> h]
Handle(route, h) == [op |-> "Handle", route |-> route, h |-> h]

\* routes.UserRoutes
UserRoutes ==
    << Handle("GET /users", "GetUsers"),
       Handle("GET /users/:user_id", "GetUser"),
       Handle("POST /users/signup", "SignUp"),
       Handle("POST /users/login", "Login") >>

\* The route groups main registers after the middleware, one list route
\* for each group.
ResourceRoutes ==
    << Handle("GET /foods", "GetFoods"),
       Handle("GET /menus", "GetMenus"),
       Handle("GET /tables", "GetTables"),
       Handle("GET /orders", "GetOrders"),
       Handle("GET /orderItems", "GetOrderItems"),
       Handle("GET /invoices", "GetInvoices") >>

\* main: the calls on the router, in program order.
main ==
    <<Use("Logger")>> \o UserRoutes \o <<Use("Authentication")>> \o ResourceRoutes

Routes == {main[i].route : i \in {j \in 1..Len(main) : main[j].op = "Handle"}}

\* gin: a route's chain is the middleware in use when the route is
\* registered, followed by its handler (RouterGroup.combineHandlers).
RECURSIVE Middleware(_)
Middleware(n) ==
    IF n = 0 THEN <<>>
    ELSE Middleware(n - 1) \o (IF main[n].op = "Use" THEN <<main[n].h>> ELSE <<>>)

Chain(route) ==
    IF route \notin Routes THEN <<>>
    ELSE LET i == CHOOSE j \in 1..Len(main) :
                      main[j].op = "Handle" /\ main[j].route = route
         IN  Middleware(i - 1) \o <<main[i].h>>

ResourceHandlers ==
    {"GetUsers", "GetUser"} \cup {ResourceRoutes[i].h : i \in 1..Len(ResourceRoutes)}

----------------------------------------------------------------------------
(* The request being served *)

NoUser == [isNil |-> TRUE]
NoKeys == [k \in {} |-> ""]
NoResult == [panic |-> FALSE, claims |-> NilClaims, msg |-> ""]

NoBody ==
    [valid |-> FALSE, email |-> "", phone |-> "", hasPassword |-> FALSE,
     password |-> "", first_name |-> "", last_name |-> ""]

\* A request entering the router: the gin context before the first handler.
NewRequest(route, hdr, body) ==
    [pc |-> "serving", route |-> route, hdr |-> hdr, body |-> body,
     chain |-> Chain(route), index |-> 1,
     keys |-> NoKeys,            \* gin context keys
     aborted |-> FALSE,          \* c.Abort() was called
     panicked |-> FALSE,         \* a handler panicked: no response is written
     authenticated |-> FALSE,    \* the Auth Gate let the request pass
     validations |-> 0,          \* calls of ValidateToken for this request
     vtok |-> <<>>,              \* the argument of the last such call
     vres |-> NoResult,          \* and its result
     vt1 |-> 0, vt2 |-> 0,       \* and the clock as its two checks read it
     ran |-> FALSE,              \* the route's handler was entered
     seen |-> NoKeys,            \* the context keys as the handler found them
     status |-> 0, error |-> "", \* the response: status and "error" of its body
     user |-> NoUser,            \* the user document of a login response
     issued |-> NoPair]          \* the pair the handler got from GenerateAllTokens

Idle == [NewRequest("", <<>>, NoBody) EXCEPT !.pc = "idle"]

\* c.JSON(status, gin.H{"error": error})
JSONError(r, status, error) == [r EXCEPT !.status = status, !.error = error]

\* The handler the context's index points at.
Current == IF req.pc = "serving" THEN req.chain[req.index] ELSE ""

\* The goroutines that call UpdateAllTokens, and one that is not inside it.
Callers == 1..NumCallers
NoUpdate == [pc |-> "idle"]

\* The connections net/http serves, each in its own goroutine.
Conns == 1..NumConns

----------------------------------------------------------------------------
(* Initial state: the process has started, the collection is empty, no     *)
(* request is in flight.                                                   *)

Init ==
    /\ now = 1
    /\ SECRET_KEY \in Keys
    /\ users = <<>>
    /\ req = Idle
    /\ pair = NoPair
    /\ call = NoCall
    /\ calls = [c \in Callers |-> NoUpdate]
    /\ history = <<>>
    /\ conns = [k \in Conns |-> Idle]

\* Time passes, up to one of the instants of S.
Advance(S) ==
    /\ \E t \in S : t > now /\ now' = t
    /\ UNCHANGED <<SECRET_KEY, calls, history, conns, users, req, pair, call>>

TokTick == Advance(Instants)

----------------------------------------------------------------------------
(* The token service on its own: GenerateAllTokens and ValidateToken       *)
(* applied to inputs drawn from Identities and TokenInputs.                *)

TokGenerate ==
    \E id \in Identities, tR \in LaterReads(now), okToken, okRefresh \in BOOLEAN :
        /\ LET r == Return(GenerateAllTokens(id.email, id.firstName, id.lastName,
                                             id.uid, SECRET_KEY, now, tR),
                           okToken, okRefresh)
               in == IF okToken /\ okRefresh
                     THEN [in |-> id, at |-> now, atRefresh |-> tR]
                     ELSE <<>>
           IN  pair' = [isNil |-> FALSE, okToken |-> okToken,
                        okRefresh |-> okRefresh] @@ in @@ r
        /\ now' = tR
        /\ call' = NoCall
        /\ UNCHANGED <<SECRET_KEY, calls, history, conns, users, req>>

TokValidate ==
    \E s \in TokenInputs, t2 \in LaterReads(now) :
        /\ call' = [isNil |-> FALSE, tok |-> s, t1 |-> now, t2 |-> t2,
                    res |-> ValidateToken(s, SECRET_KEY, now, t2)]
        /\ now' = t2
        /\ UNCHANGED <<SECRET_KEY, calls, history, conns, users, req, pair>>

NextToken == TokTick \/ TokGenerate \/ TokValidate

SpecToken == Init /\ [][NextToken]_vars

----------------------------------------------------------------------------
(* The user collection *)

\* primitive.NewObjectID().Hex(): a fresh identifier.
NewObjectIDHex == ToString(Len(users) + 1)

\* bcrypt.GenerateFromPassword
HashPassword(password) == [bcrypt |-> password]

\* A VerifyPassword that does not look at the outcome of the comparison.
VerifyPassword_Unchecked(userPassword, providedPassword) ==
    [check |-> TRUE, msg |-> ""]

\* VerifyPassword: bcrypt.CompareHashAndPassword(providedPassword, userPassword)
VerifyPassword(userPassword, providedPassword) ==
    IF providedPassword = HashPassword(userPassword)
    THEN [check |-> TRUE, msg |-> ""]
    ELSE [check |-> FALSE, msg |-> "login or password is incorrect"]

\* userCollection.CountDocuments(ctx, bson.M{field: value})
CountDocuments(field, value) ==
    Cardinality({i \in 1..Len(users) : users[i][field] = value})

\* A lookup that matches no document.
FindOne_NeverFinds(field, value) == 0

\* userCollection.FindOne(ctx, bson.M{field: value}): the position of the
\* first matching document, 0 when there is none.
FindOne(field, value) ==
    LET m == {i \in 1..Len(users) : users[i][field] = value}
    IN  IF m = {} THEN 0 ELSE CHOOSE i \in m : \A j \in m : i <= j

\* updateObj: the three fields UpdateAllTokens puts under "$set".
UpdateObj(signedToken, signedRefreshToken, t) ==
    [token |-> signedToken, refresh_token |-> signedRefreshToken, updated_at |-> t]

\* A "$set" that leaves refresh_token out.
SetTokens_TokenOnly(doc, updateObj) ==
    [doc EXCEPT !.token = updateObj.token, !.updated_at = updateObj.updated_at]

\* {"$set": updateObj} applied to one document: MongoDB applies the
\* operators of one update to one document as a single write.
SetTokens(doc, updateObj) ==
    [doc EXCEPT !.token = updateObj.token,
                !.refresh_token = updateObj.refresh_token,
                !.updated_at = updateObj.updated_at]

\* The document an upsert inserts when the filter {"user_id": userId}
\* matches nothing: the filter's field and the "$set" fields (its other
\* fields are absent, written here as empty).
Upserted(userId, updateObj) ==
    SetTokens([user_id |-> userId, email |-> "", phone |-> "",
               Password |-> HashPassword(""), first_name |-> "",
               last_name |-> "", token |-> <<>>, refresh_token |-> <<>>,
               updated_at |-> 0],
              updateObj)

\* An UpdateAllTokens whose filter matches any document: the pair goes to
\* the first document of the collection.
UpdateAllTokens_AnyDocument(signedToken, signedRefreshToken, userId, t) ==
    LET updateObj == UpdateObj(signedToken, signedRefreshToken, t)
    IN  IF Len(users) > 0
        THEN [users EXCEPT ![1] = SetTokens(@, updateObj)]
        ELSE Append(users, Upserted(userId, updateObj))

\* UpdateAllTokens, when UpdateOne succeeds and no other write comes
\* between its lookup and its write: "$set" on the first document with
\* this user_id, or, with upsert, a new document.
UpdateAllTokens(signedToken, signedRefreshToken, userId, t) ==
    LET i == FindOne("user_id", userId)
        updateObj == UpdateObj(signedToken, signedRefreshToken, t)
    IN  IF i # 0
        THEN [users EXCEPT ![i] = SetTokens(@, updateObj)]
        ELSE Append(users, Upserted(userId, updateObj))

----------------------------------------------------------------------------
(* Requests *)

Body(email, phone, password, first, last) ==
    [valid |-> TRUE, email |-> email, phone |-> phone, hasPassword |-> TRUE,
     password |-> password, first_name |-> first, last_name |-> last]

\* Sign-up bodies: two accounts, a third that reuses the first one's email
\* with the second one's phone, and one that fails BindJSON or validation.
SignUpBodies ==
    { Body("a@x.io", "555-1", "pw-ann", "Ann", "Lee"),
      Body("b@x.io", "555-2", "pw-lee", "Lee", "Ann"),
      Body("a@x.io", "555-2", "pw-eve", "Eve", "Lee"),
      NoBody }

LoginBodies ==
    { Body("a@x.io", "", "pw-ann", "", ""),
      Body("a@x.io", "", "wrong", "", ""),
      Body("b@x.io", "", "pw-lee", "", ""),
      Body("nobody@x.io", "", "pw-ann", "", ""),
      [Body("a@x.io", "", "", "", "") EXCEPT !.hasPassword = FALSE],
      NoBody }

\* What a client presents in the token header, given the tokens stored
\* for a user: the access token, the refresh token, and the access token
\* with a foreign signature.
Presentable(u) ==
    { u.token, u.refresh_token, Resign(u.token[1], u.token[2], ForeignKey) }

\* The access token in the body of the response the client has just got:
\* Login answers with the document as FindOne read it, before
\* UpdateAllTokens replaced its pair.
Responded ==
    IF req.pc = "done" /\ req.status = StatusOK /\ req.user # NoUser
    THEN {req.user.token}
    ELSE {}

HeaderInputs(route) ==
    IF "Authentication" \notin {Chain(route)[i] : i \in 1..Len(Chain(route))}
    THEN {<<>>}
    ELSE {<<>>, <<RawSegment("garbage")>>}
         \cup UNION {Presentable(users[i]) : i \in 1..Len(users)}
         \cup Responded

BodyInputs(route) ==
    IF route = "POST /users/signup" THEN SignUpBodies
    ELSE IF route = "POST /users/login" THEN LoginBodies
    ELSE {NoBody}

\* The routes requests are made to: the user routes and one route of the
\* groups registered after them.
Requested ==
    {UserRoutes[i].route : i \in 1..Len(UserRoutes)} \cup {"GET /foods"}

\* Time passes between two requests.
Tick == req.pc # "serving" /\ Advance(ServerInstants)

\* A request arrives; the server takes it up when the previous one is over.
Receive ==
    /\ req.pc \in {"idle", "done"}
    /\ \E route \in Requested :
         \E hdr \in HeaderInputs(route), body \in BodyInputs(route) :
            req' = NewRequest(route, hdr, body)
    /\ UNCHANGED <<now, SECRET_KEY, calls, history, conns, users, pair, call>>

\* gin.Logger(): passes the request on.
Logger ==
    /\ Current = "Logger"
    /\ req' = [req EXCEPT !.index = @ + 1]
    /\ UNCHANGED <<now, SECRET_KEY, calls, history, conns, users, pair, call>>

----------------------------------------------------------------------------
(* middleware.Authentication *)

\* The gate without its test for a missing header.
HeaderMissing_Never(clientToken) == FALSE

\* line 24: no token header, or an empty one
HeaderMissing(clientToken) == clientToken = <<>>

\* The gate without its test of the validation message.
ValidationFailed_Never(err) == FALSE

\* line 33
ValidationFailed(err) == err # ""

\* The four keys with uid set from the email claim.
ContextKeys_UidFromEmail(claims) ==
    [email |-> claims.Email, first_name |-> claims.First_name,
     last_name |-> claims.Last_name, uid |-> claims.Email]

\* lines 41-44: c.Set of the four keys
ContextKeys(claims) ==
    [email |-> claims.Email, first_name |-> claims.First_name,
     last_name |-> claims.Last_name, uid |-> claims.Uid]

\* The handler of Authentication() on the context r of one request, with
\* t1 and t2 the clock readings of ValidateToken: the context afterwards.
Gate(r, key, t1, t2) ==
    LET clientToken == r.hdr
        res == ValidateToken(clientToken, key, t1, t2)
        v == [r EXCEPT !.validations = @ + 1, !.vtok = clientToken,
                       !.vres = res, !.vt1 = t1, !.vt2 = t2]
    IN  IF HeaderMissing(clientToken)
        THEN [JSONError(r, StatusInternalServerError,
                        "No Authorization header provided")
                EXCEPT !.aborted = TRUE, !.pc = "done"]
        ELSE IF res.panic
        THEN [v EXCEPT !.panicked = TRUE, !.pc = "done"]
        ELSE IF ValidationFailed(res.msg)
        THEN [JSONError(v, StatusInternalServerError, res.msg)
                EXCEPT !.aborted = TRUE, !.pc = "done"]
        ELSE IF res.claims = NilClaims
        THEN [v EXCEPT !.panicked = TRUE, !.pc = "done"]
        ELSE [v EXCEPT !.keys = ContextKeys(res.claims),
                       !.authenticated = TRUE,
                       !.index = @ + 1]

\* The clock readings of the gate for a request with header hdr, from t on:
\* none is taken when the header is missing.
GateReads(hdr, t) == IF HeaderMissing(hdr) THEN {t} ELSE LaterReads(t)

Authentication ==
    /\ Current = "Authentication"
    /\ \E t2 \in GateReads(req.hdr, now) :
         /\ req' = Gate(req, SECRET_KEY, now, t2)
         /\ now' = t2
    /\ UNCHANGED <<SECRET_KEY, calls, history, conns, users, pair, call>>

----------------------------------------------------------------------------
(* The user controller *)

\* SignUp.  The count of documents with the email is overwritten by the
\* count of documents with the phone before it is looked at.
SignUp ==
    /\ Current = "SignUp"
    /\ LET user == req.body
           r == [req EXCEPT !.ran = TRUE, !.pc = "done"]
       IN  IF ~user.valid
           THEN /\ req' = JSONError(r, StatusBadRequest, "invalid request body")
                /\ UNCHANGED <<now, users>>
           ELSE LET emailCount == CountDocuments("email", user.email)
                    count == CountDocuments("phone", user.phone)
                IN  IF count > 0
                    THEN /\ req' = JSONError(r, StatusInternalServerError,
                                       "this email or phone number already exsits")
                         /\ UNCHANGED <<now, users>>
                    ELSE \E tR \in LaterReads(now) :
                           LET id == NewObjectIDHex
                               t == GenerateAllTokens(user.email, user.first_name,
                                                      user.last_name, id,
                                                      SECRET_KEY, now, tR)
                           IN  /\ users' = Append(users,
                                     [user_id |-> id, email |-> user.email,
                                      phone |-> user.phone,
                                      Password |-> HashPassword(user.password),
                                      first_name |-> user.first_name,
                                      last_name |-> user.last_name,
                                      token |-> t.token,
                                      refresh_token |-> t.refreshToken,
                                      updated_at |-> now])
                               /\ req' = [r EXCEPT !.status = StatusOK, !.issued = t]
                               /\ now' = tR
    /\ UNCHANGED <<SECRET_KEY, calls, history, conns, pair, call>>

\* An UpdateAllTokens that does not test err.
UpdateFailed_Ignored(ok) == FALSE

\* UpdateAllTokens, lines 129-132: err != nil after UpdateOne, where ok says
\* that UpdateOne applied the write; log.Panic(err) then panics in the
\* goroutine of the request, which net/http recovers from.
UpdateFailed(ok) == ~ok

\* Login.  ok is whether UpdateOne succeeds; when it fails UpdateAllTokens
\* panics.  The response carries foundUser, the document as FindOne read it.
Login ==
    /\ Current = "Login"
    /\ LET user == req.body
           r == [req EXCEPT !.ran = TRUE, !.pc = "done"]
           i == FindOne("email", user.email)
       IN  IF ~user.valid
           THEN /\ req' = JSONError(r, StatusBadRequest, "invalid request body")
                /\ UNCHANGED <<now, users>>
           ELSE IF i = 0
           THEN /\ req' = JSONError(r, StatusInternalServerError,
                                    "user not found, login seems to be incorrect")
                /\ UNCHANGED <<now, users>>
           ELSE IF ~user.hasPassword
           THEN /\ req' = [r EXCEPT !.panicked = TRUE]
                /\ UNCHANGED <<now, users>>
           ELSE IF ~VerifyPassword(user.password, users[i].Password).check
           THEN /\ req' = JSONError(r, StatusInternalServerError,
                              VerifyPassword(user.password, users[i].Password).msg)
                /\ UNCHANGED <<now, users>>
           ELSE \E tR \in LaterReads(now), ok \in BOOLEAN :
                  LET foundUser == users[i]
                      t == GenerateAllTokens(foundUser.email, foundUser.first_name,
                                             foundUser.last_name, foundUser.user_id,
                                             SECRET_KEY, now, tR)
                  IN  /\ now' = tR
                      /\ users' = IF ok
                                  THEN UpdateAllTokens(t.token, t.refreshToken,
                                                       foundUser.user_id, tR)
                                  ELSE users
                      /\ req' = IF UpdateFailed(ok)
                                THEN [r EXCEPT !.panicked = TRUE, !.issued = t]
                                ELSE [r EXCEPT !.status = StatusOK,
                                               !.user = foundUser,
                                               !.issued = t]
    /\ UNCHANGED <<SECRET_KEY, calls, history, conns, pair, call>>

\* Any other route handler: it is entered and answers.
\* A handler on the context r: it finds the keys set before it (c.Get)
\* and answers.
Run(r) ==
    [r EXCEPT !.ran = TRUE, !.seen = r.keys, !.status = StatusOK, !.pc = "done"]

Resource ==
    /\ Current \in ResourceHandlers
    /\ req' = Run(req)
    /\ UNCHANGED <<now, SECRET_KEY, calls, history, conns, users, pair, call>>

Next ==
    Tick \/ Receive \/ Logger \/ Authentication \/ SignUp \/ Login \/ Resource

Spec == Init /\ [][Next]_vars

----------------------------------------------------------------------------
(* Requests served concurrently: net/http runs each connection's request   *)
(* in its own goroutine, gin gives each its own *gin.Context, and the      *)
(* handlers of the chains interleave.  The requests are made to a route    *)
(* behind the gate, with no token or with an access token issued at the    *)
(* start for one of the identities.                                        *)

\* Contexts whose keys are one map, shared by the requests in progress.
SetContext_SharedKeys(cs, k, r) ==
    [j \in DOMAIN cs |-> IF j = k THEN r ELSE [cs[j] EXCEPT !.keys = r.keys]]

\* A handler's writes go to c, the context of the request it serves.
SetContext(cs, k, r) == [cs EXCEPT ![k] = r]

\* The handler the index of context r points at.
At(r) == IF r.pc = "serving" THEN r.chain[r.index] ELSE ""

ConnHeaders ==
    {<<>>} \cup
    {GenerateAllTokens(id.email, id.firstName, id.lastName, id.uid,
                       SECRET_KEY, 1, 1).token : id \in Subjects}

ConnReceive(k) ==
    /\ conns[k].pc \in {"idle", "done"}
    /\ \E hdr \in ConnHeaders :
         conns' = SetContext(conns, k, NewRequest("GET /foods", hdr, NoBody))
    /\ UNCHANGED <<now, SECRET_KEY, users, req, pair, call, calls, history>>

ConnLogger(k) ==
    /\ At(conns[k]) = "Logger"
    /\ conns' = SetContext(conns, k, [conns[k] EXCEPT !.index = @ + 1])
    /\ UNCHANGED <<now, SECRET_KEY, users, req, pair, call, calls, history>>

ConnAuthentication(k) ==
    /\ At(conns[k]) = "Authentication"
    /\ \E t2 \in GateReads(conns[k].hdr, now) :
         /\ conns' = SetContext(conns, k, Gate(conns[k], SECRET_KEY, now, t2))
         /\ now' = t2
    /\ UNCHANGED <<SECRET_KEY, users, req, pair, call, calls, history>>

ConnResource(k) ==
    /\ At(conns[k]) \in ResourceHandlers
    /\ conns' = SetContext(conns, k, Run(conns[k]))
    /\ UNCHANGED <<now, SECRET_KEY, users, req, pair, call, calls, history>>

NextGate ==
    \/ \E k \in Conns : ConnReceive(k)
    \/ \E k \in Conns : ConnLogger(k)
    \/ \E k \in Conns : ConnAuthentication(k)
    \/ \E k \in Conns : ConnResource(k)

SpecGate == Init /\ [][NextGate]_vars

----------------------------------------------------------------------------
(* UpdateAllTokens on its own: calls made with pairs issued for the        *)
(* identities, one at a time (SpecStore) or from several goroutines at     *)
(* once (SpecStoreConc).  A call builds its update document, then runs     *)
(* UpdateOne; the server applies "$set" to a matching document as one      *)
(* write, and when nothing matches it inserts afterwards, so that two      *)
(* upserts of one unseen user_id may both insert.                          *)

\* Time passes between the steps of the calls: to one second after the
\* start, and to the second after the expiry of a pair issued at the start.
StoreInstants == {2, 1 + AccessHours * Hour + 1}
StoreTick == Advance(StoreInstants)

InProgress == {c \in Callers : calls[c] # NoUpdate}

\* What history records of a write by caller c.
Written(c) ==
    [userId |-> calls[c].userId, obj |-> calls[c].obj,
     overlapped |-> \E d \in InProgress \ {c} : calls[d].userId = calls[c].userId]

\* A caller enters UpdateAllTokens with a pair issued now and builds
\* updateObj, reading the clock for updated_at.
StoreBegin(c) ==
    /\ calls[c] = NoUpdate
    /\ Len(history) + Cardinality(InProgress) < MaxWrites
    /\ \E id \in Subjects :
         LET p == GenerateAllTokens(id.email, id.firstName, id.lastName, id.uid,
                                    SECRET_KEY, now, now)
         IN  calls' = [calls EXCEPT ![c] =
                          [pc |-> "UpdateOne", userId |-> id.uid,
                           obj |-> UpdateObj(p.token, p.refreshToken, now)]]
    /\ UNCHANGED <<now, SECRET_KEY, users, req, pair, call, history, conns>>

\* The same, when no other call is in progress.
StoreBeginAlone(c) == InProgress = {} /\ StoreBegin(c)

\* UpdateOne: it fails (log.Panic, nothing written), or it updates the
\* first document with this user_id, or it finds none and goes on to
\* insert.
StoreUpdateOne(c) ==
    /\ calls[c] # NoUpdate /\ calls[c].pc = "UpdateOne"
    /\ \E ok \in BOOLEAN :
         LET i == FindOne("user_id", calls[c].userId)
         IN  IF ~ok
             THEN /\ calls' = [calls EXCEPT ![c] = NoUpdate]
                  /\ UNCHANGED <<users, history>>
             ELSE IF i # 0
             THEN /\ users' = [users EXCEPT ![i] = SetTokens(@, calls[c].obj)]
                  /\ history' = Append(history, Written(c))
                  /\ calls' = [calls EXCEPT ![c] = NoUpdate]
             ELSE /\ calls' = [calls EXCEPT ![c].pc = "insert"]
                  /\ UNCHANGED <<users, history>>
    /\ UNCHANGED <<now, SECRET_KEY, req, pair, call, conns>>

\* The insert of an upsert whose lookup matched nothing.
StoreInsert(c) ==
    /\ calls[c] # NoUpdate /\ calls[c].pc = "insert"
    /\ users' = Append(users, Upserted(calls[c].userId, calls[c].obj))
    /\ history' = Append(history, Written(c))
    /\ calls' = [calls EXCEPT ![c] = NoUpdate]
    /\ UNCHANGED <<now, SECRET_KEY, req, pair, call, conns>>

\* The tokens of the collection and of the calls in progress.
KnownTokens ==
    {users[i].token : i \in 1..Len(users)}
    \cup {calls[c].obj.token : c \in InProgress}

\* ValidateToken, called between the steps of UpdateAllTokens: call keeps
\* the arguments, the two clock readings, the result, whether the
\* collection held the token when the call ran, and whether the call
\* before it had the same arguments and readings but found the collection
\* otherwise.
StoreValidate ==
    \E s \in KnownTokens, t2 \in LaterReads(now) :
        /\ call' = [isNil |-> FALSE, tok |-> s, t1 |-> now, t2 |-> t2,
                    res |-> ValidateToken(s, SECRET_KEY, now, t2),
                    stored |-> \E i \in 1..Len(users) : users[i].token = s,
                    again |-> /\ call # NoCall
                              /\ call.tok = s /\ call.t1 = now /\ call.t2 = t2
                              /\ call.stored # \E i \in 1..Len(users) : users[i].token = s]
        /\ now' = t2
        /\ UNCHANGED <<SECRET_KEY, users, req, pair, calls, history, conns>>

NextStore ==
    \/ StoreTick
    \/ StoreValidate
    \/ \E c \in Callers : StoreBeginAlone(c)
    \/ \E c \in Callers : StoreUpdateOne(c)
    \/ \E c \in Callers : StoreInsert(c)

SpecStore == Init /\ [][NextStore]_vars

NextStoreConc ==
    \/ StoreTick
    \/ \E c \in Callers : StoreBegin(c)
    \/ \E c \in Callers : StoreUpdateOne(c)
    \/ \E c \in Callers : StoreInsert(c)

SpecStoreConc == Init /\ [][NextStoreConc]_vars

----------------------------------------------------------------------------
(* Properties of the token service, checked under SpecToken *)

\* Three segments, each of them base64url.
WellFormed(tok) ==
    /\ Len(tok) = 3
    /\ \A i \in 1..3 : "b64" \in DOMAIN tok[i]

\* A well-formed token with an HMAC header and JSON claims.
HasSignedShape(tok) ==
    /\ WellFormed(tok)
    /\ tok[1].b64.is = "header"
    /\ tok[1].b64.alg \in HMACAlgs
    /\ tok[2].b64.is = "claims"

\* The third segment is the MAC of the first two under key.
SignatureVerifies(tok, key) ==
    tok[3] = EncodeSegment(HMAC(HashOf(tok[1].b64.alg), key, <<tok[1], tok[2]>>))

CorrectlySigned(tok, key) == HasSignedShape(tok) /\ SignatureVerifies(tok, key)

\* Header and claims are those of a token, the signature is not the
\* configured key's.
BadSignature(tok, key) ==
    /\ Len(tok) = 3
    /\ "b64" \in DOMAIN tok[1] /\ tok[1].b64.is = "header"
    /\ tok[1].b64.alg \in HMACAlgs
    /\ "b64" \in DOMAIN tok[2] /\ tok[2].b64.is = "claims"
    /\ ~SignatureVerifies(tok, key)

ExpiresAtOf(tok) == tok[2].b64.exp

Succeeded(res) == ~res.panic /\ res.msg = ""
Rejected(res) == ~res.panic /\ res.msg # ""
ExpiredOutcome(res) == ~res.panic /\ res.msg \in {"token is expired", ErrExpiredBy}

\* C1: a token whose signature does not verify against the configured key
\* is never reported valid: ValidateToken returns a non-empty message.
C1_BadSignatureRejected ==
    (call # NoCall /\ BadSignature(call.tok, SECRET_KEY)) => Rejected(call.res)

\* C2: on a string that is not a well-formed three-segment token
\* ValidateToken returns a non-empty message and does not panic.
C2_TotalOnMalformed ==
    (call # NoCall /\ ~WellFormed(call.tok)) => Rejected(call.res)

\* C3: validating the access token GenerateAllTokens returned, at a time
\* before its expires_at, succeeds with the claims email, first_name,
\* last_name and uid equal to the inputs of GenerateAllTokens.
C3_RoundTrip ==
    (/\ call # NoCall /\ pair # NoPair
     /\ call.tok = pair.token
     /\ call.t2 < ExpiresAtOf(pair.token))
    => /\ Succeeded(call.res)
       /\ call.res.claims.Email = pair.in.email
       /\ call.res.claims.First_name = pair.in.firstName
       /\ call.res.claims.Last_name = pair.in.lastName
       /\ call.res.claims.Uid = pair.in.uid

\* The access token of a pair with a non-empty identity was validated one
\* second before its expiry, and accepted.
C3_Witness ==
    /\ call # NoCall /\ pair # NoPair
    /\ call.tok = pair.token
    /\ pair.in.uid = "2"
    /\ call.t2 = ExpiresAtOf(pair.token) - 1
    /\ Succeeded(call.res)
    /\ call.res.claims.First_name = "Lee"

\* C4 as stated: a correctly signed token gets the expired outcome iff
\* the current time is at or after its expires_at.
C4_ExpiredIffAtOrAfter ==
    (call # NoCall /\ CorrectlySigned(call.tok, SECRET_KEY))
    => (ExpiredOutcome(call.res) <=> call.t2 >= ExpiresAtOf(call.tok))

\* C4 amended: a correctly signed token gets the expired outcome iff the
\* current time is strictly after its expires_at; at expires_at itself
\* the token is still accepted.
C4_ExpiredIffAfter ==
    (call # NoCall /\ CorrectlySigned(call.tok, SECRET_KEY))
    => /\ ExpiredOutcome(call.res) <=> call.t2 > ExpiresAtOf(call.tok)
       /\ ~ExpiredOutcome(call.res) => Succeeded(call.res)

\* An issued access token was validated exactly at its expires_at and
\* accepted.
C4_Witness ==
    /\ call # NoCall /\ pair # NoPair
    /\ call.tok = pair.token
    /\ CorrectlySigned(call.tok, SECRET_KEY)
    /\ call.t2 = ExpiresAtOf(call.tok)
    /\ Succeeded(call.res)

\* GenerateAllTokens returned both tokens.
Whole == pair # NoPair /\ ~pair.panic /\ pair.token # <<>>

\* The claims a signed token carries.
Carried(tok) == UnmarshalClaims(tok[2].b64)

\* C14 as stated: with T the time of the call, the access token expires
\* at T + 24 hours and the refresh token at T + 168 hours, so the two
\* differ by exactly 144 hours, and both are non-zero.
C14_ExactLifetimes ==
    Whole =>
        /\ ExpiresAtOf(pair.token) = pair.at + AccessHours * Hour
        /\ ExpiresAtOf(pair.refreshToken) = pair.at + RefreshHours * Hour
        /\ ExpiresAtOf(pair.refreshToken) - ExpiresAtOf(pair.token)
             = (RefreshHours - AccessHours) * Hour
        /\ ExpiresAtOf(pair.token) # 0 /\ ExpiresAtOf(pair.refreshToken) # 0

\* C14 amended: the access token expires 24 hours after the clock reading
\* taken for the access claims and the refresh token 168 hours after the
\* later reading taken for the refresh claims; the two differ by at least
\* 144 hours, by exactly 144 hours when the readings are equal, and both
\* are non-zero.
C14_LifetimesFromTwoReadings ==
    Whole =>
        /\ ExpiresAtOf(pair.token) = pair.at + AccessHours * Hour
        /\ ExpiresAtOf(pair.refreshToken) = pair.atRefresh + RefreshHours * Hour
        /\ pair.at <= pair.atRefresh
        /\ ExpiresAtOf(pair.refreshToken) - ExpiresAtOf(pair.token)
             >= (RefreshHours - AccessHours) * Hour
        /\ pair.atRefresh = pair.at =>
              ExpiresAtOf(pair.refreshToken) - ExpiresAtOf(pair.token)
                = (RefreshHours - AccessHours) * Hour
        /\ ExpiresAtOf(pair.token) # 0 /\ ExpiresAtOf(pair.refreshToken) # 0

\* A pair whose two clock readings fell in the same second: its expiries
\* are 144 hours apart.
C14_Witness ==
    /\ Whole
    /\ pair.atRefresh = pair.at
    /\ ExpiresAtOf(pair.refreshToken) - ExpiresAtOf(pair.token) = 144 * Hour

\* C15: the refresh token of a pair carries empty email, first_name,
\* last_name and uid and a set expires_at, and the access token of the
\* pair carries the four inputs of the call.
C15_RefreshCarriesNoIdentity ==
    Whole =>
        /\ Carried(pair.refreshToken).Email = ""
        /\ Carried(pair.refreshToken).First_name = ""
        /\ Carried(pair.refreshToken).Last_name = ""
        /\ Carried(pair.refreshToken).Uid = ""
        /\ Carried(pair.refreshToken).ExpiresAt # 0
        /\ Carried(pair.token).Email = pair.in.email
        /\ Carried(pair.token).First_name = pair.in.firstName
        /\ Carried(pair.token).Last_name = pair.in.lastName
        /\ Carried(pair.token).Uid = pair.in.uid

\* A pair issued for an identity with four non-empty fields.
C15_Witness ==
    /\ Whole
    /\ pair.in.email = "a@x.io" /\ pair.in.uid = "1"
    /\ Carried(pair.token).Uid = "1"
    /\ Carried(pair.refreshToken) =
          [ZeroSignedDetails EXCEPT !.ExpiresAt = pair.atRefresh + RefreshHours * Hour]

----------------------------------------------------------------------------
(* Properties of the Auth Gate and the routes, checked under Spec *)

PublicRoutes == {"POST /users/signup", "POST /users/login"}

\* The request's chain passes through the Auth Gate.
Gated(r) == \E i \in 1..Len(r.chain) : r.chain[i] = "Authentication"

GatePosition(r) == CHOOSE i \in 1..Len(r.chain) : r.chain[i] = "Authentication"

\* The gate has handled the request: it passed it on, or the request is over.
GateActed(r) == Gated(r) /\ (r.pc = "done" \/ r.index > GatePosition(r))

\* C5: a request without token header on a gated route is answered with
\* {"error": "No Authorization header provided"}; ValidateToken is not
\* called and the route's handler is not run.
C5_MissingHeaderShortCircuits ==
    (Gated(req) /\ req.hdr = <<>>)
    => /\ req.validations = 0
       /\ ~req.ran
       /\ ~req.authenticated
       /\ GateActed(req) => /\ req.pc = "done"
                            /\ req.aborted
                            /\ req.status # 0
                            /\ req.error = "No Authorization header provided"

\* A request without token header has been through the gate.
C5_Witness ==
    /\ Gated(req) /\ req.hdr = <<>>
    /\ req.pc = "done"
    /\ req.error = "No Authorization header provided"

\* C6: when validation of the presented token fails, the gate answers
\* with an error status and the body {"error": reason}, and the handler
\* does not run; the failure shows in no other form.
C6_FailureIsStructured ==
    (Gated(req) /\ req.validations > 0 /\ ~Succeeded(req.vres))
    => /\ req.status >= 400
       /\ req.error # ""
       /\ req.error = req.vres.msg
       /\ ~req.panicked
       /\ ~req.ran

\* C7: a request is authenticated only by one successful ValidateToken of
\* its own token; validation is attempted at most once; a rejected
\* request is over, is not authenticated, has no identity in its context
\* and its handler has not run.
C7_TwoStates ==
    /\ req.validations <= 1
    /\ req.authenticated => /\ Gated(req)
                            /\ req.validations = 1
                            /\ req.vtok = req.hdr
                            /\ Succeeded(req.vres)
    /\ req.keys # NoKeys => req.authenticated
    /\ (Gated(req) /\ req.ran) => req.authenticated
    /\ (req.aborted \/ (req.validations = 1 /\ ~Succeeded(req.vres)))
       => /\ req.pc = "done"
          /\ ~req.authenticated
          /\ req.keys = NoKeys
          /\ ~req.ran

\* A request was authenticated by its one validation and its handler has
\* run.
C7_Witness ==
    /\ req.authenticated
    /\ req.ran
    /\ req.pc = "done"
    /\ req.validations = 1

\* C8: the handler of a route other than signup and login runs only for
\* requests the Auth Gate has authenticated.
C8_OnlyAuthenticatedReachHandlers ==
    (req.ran /\ req.route \notin PublicRoutes) => req.authenticated

\* C9: when validation succeeds the context keys email, first_name,
\* last_name and uid are the claims of the presented token, set before
\* the handler starts, and the request proceeds to the handler.
C9_IdentityAttached ==
    /\ req.authenticated
       => /\ req.keys = [email |-> req.hdr[2].b64.Email,
                         first_name |-> req.hdr[2].b64.First_name,
                         last_name |-> req.hdr[2].b64.Last_name,
                         uid |-> req.hdr[2].b64.Uid]
          /\ ~req.aborted
          /\ req.index > GatePosition(req)
          /\ req.pc = "done" => req.ran
    /\ (Gated(req) /\ req.ran)
       => DOMAIN req.keys = {"email", "first_name", "last_name", "uid"}

\* The handler of a gated route has run with Ann Lee's identity in the
\* context.
C9_Witness ==
    /\ req.authenticated /\ req.ran
    /\ req.keys = [email |-> "a@x.io", first_name |-> "Ann",
                   last_name |-> "Lee", uid |-> "1"]

\* C10: the tokens in the response of a successful login are the pair
\* that login issued and persisted.
C10_LoginReturnsIssuedPair ==
    (req.route = "POST /users/login" /\ req.pc = "done" /\ req.status = StatusOK)
    => /\ req.user.token = req.issued.token
       /\ req.user.refresh_token = req.issued.refreshToken

\* The header is the refresh token of a stored pair.
RefreshPresented(r) ==
    \E i \in 1..Len(users) : r.hdr = users[i].refresh_token

\* C16: a request presenting a refresh token in the token header is never
\* authenticated by the gate, so no handler runs for it with an empty
\* identity.
C16_RefreshNeverAuthenticates ==
    (Gated(req) /\ RefreshPresented(req)) => ~req.authenticated /\ ~req.ran

\* The time at which the access token tok was issued.
IssuedAt(tok) == ExpiresAtOf(tok) - AccessHours * Hour

\* The header is the access token of a stored pair.
AccessPresented(r) ==
    \E i \in 1..Len(users) : r.hdr = users[i].token

\* C17: no request is authenticated with a token whose expires_at is
\* earlier than the time of its validation; an access token issued at T0
\* is accepted up to T0 + 23h59m and rejected as expired from T0 + 24h01m
\* on.
C17_ExpiredNeverAuthenticated ==
    /\ req.authenticated => ExpiresAtOf(req.vtok) >= req.vt2
    /\ (GateActed(req) /\ AccessPresented(req)) =>
          LET T0 == IssuedAt(req.hdr)
          IN  /\ req.vt2 <= T0 + AccessHours * Hour - 60 => req.authenticated
              /\ req.vt2 >= T0 + AccessHours * Hour + 60 =>
                    /\ ~req.authenticated /\ ~req.ran
                    /\ ExpiredOutcome(req.vres)

\* The access token of a signup was presented 24h01m after its issue and
\* rejected as expired.
C17_Witness ==
    /\ GateActed(req) /\ AccessPresented(req)
    /\ req.vt2 = IssuedAt(req.hdr) + AccessHours * Hour + 60
    /\ ~req.authenticated /\ req.pc = "done" /\ ~req.ran
    /\ req.status = StatusInternalServerError
    /\ ExpiredOutcome(req.vres)

\* A Login whose GenerateAllTokens returned and whose UpdateAllTokens
\* panicked.
UpsertFailed(r) ==
    /\ r.route = "POST /users/login" /\ r.pc = "done"
    /\ r.panicked /\ r.issued # NoPair

\* The pair a Login issued is the stored pair of the user it answered for.
Persisted(r) ==
    \E i \in 1..Len(users) :
        /\ users[i].user_id = r.user.user_id
        /\ users[i].token = r.issued.token
        /\ users[i].refresh_token = r.issued.refreshToken

LoginSucceeded(r) ==
    r.route = "POST /users/login" /\ r.pc = "done" /\ r.status = StatusOK

----------------------------------------------------------------------------
(* Properties of UpdateAllTokens (SpecStore, SpecStoreConc) *)

Records(userId) == {i \in 1..Len(users) : users[i].user_id = userId}
Writes(userId) == {k \in 1..Len(history) : history[k].userId = userId}
LastWrite(userId) ==
    history[CHOOSE k \in Writes(userId) : \A j \in Writes(userId) : j <= k]
Stored(doc) == UpdateObj(doc.token, doc.refresh_token, doc.updated_at)

\* C11: after any sequence of UpdateAllTokens calls the collection holds
\* at most one document per user_id, none for a user_id never persisted,
\* and the document of a persisted user_id carries the pair and timestamp
\* of the latest call for it.
C11_OneRecordPerSubject ==
    \A id \in Subjects :
        /\ Cardinality(Records(id.uid)) <= 1
        /\ Writes(id.uid) = {} => Records(id.uid) = {}
        /\ Writes(id.uid) # {} =>
               \E i \in Records(id.uid) : Stored(users[i]) = LastWrite(id.uid).obj

\* Three calls have been applied: two for one subject, whose second pair
\* replaced the first, and one for another subject.
C11_Witness ==
    /\ Len(history) = 3 /\ Len(users) = 2
    /\ history[1].userId = history[3].userId
    /\ history[1].obj.token # history[3].obj.token
    /\ history[2].userId # history[1].userId

\* C12: under any interleaving of UpdateAllTokens calls, and after failed
\* ones, the token, refresh_token and updated_at of every document are
\* those of one single call for that document's user_id.
C12_NeverPartiallyStored ==
    \A i \in 1..Len(users) :
        \E k \in Writes(users[i].user_id) : Stored(users[i]) = history[k].obj

\* A call for a subject was applied while another call for the same
\* subject was in progress, over a document an earlier call had written.
C12_Witness ==
    /\ Len(history) >= 2
    /\ history[Len(history)].overlapped
    /\ \E k \in 1..(Len(history) - 1) :
          /\ history[k].userId = history[Len(history)].userId
          /\ history[k].obj.refresh_token # history[Len(history)].obj.refresh_token

\* The inputs of a ValidateToken call: token string, signing key, and the
\* clock as the call read it.
SameInputs(c, d) == c.tok = d.tok /\ c.t1 = d.t1 /\ c.t2 = d.t2

\* C13: a ValidateToken call leaves the user collection and the signing
\* key as they were, and two calls with the same token string, time and
\* key return the same result whatever the collection holds.
C13_ValidationIsPure ==
    [][ /\ call' # call => users' = users /\ SECRET_KEY' = SECRET_KEY
        /\ (call # NoCall /\ call' # NoCall /\ SameInputs(call, call'))
              => call'.res = call.res ]_vars

\* A call that accepted a token the collection holds, after a call with
\* the same inputs made before the token's pair was stored.
C13_Witness ==
    /\ call # NoCall
    /\ call.again /\ call.stored
    /\ Succeeded(call.res)

----------------------------------------------------------------------------
(* Properties of concurrent requests (SpecGate) *)

\* The identity the token of request r carries.
OwnIdentity(r) == ContextKeys(Carried(r.hdr))

\* C20: under any interleaving of concurrent requests, the email,
\* first_name, last_name and uid a request's handler finds are those of
\* the request's own token, and a step of the gate changes neither the
\* user collection, nor the signing key, nor the context of any other
\* request.
C20_IdentityOwnedByRequest ==
    [][ /\ \A k \in Conns :
             /\ conns'[k].authenticated => conns'[k].keys = OwnIdentity(conns'[k])
             /\ conns'[k].ran => conns'[k].seen = OwnIdentity(conns'[k])
        /\ \A k \in Conns :
             (At(conns[k]) = "Authentication" /\ conns'[k] # conns[k])
             => /\ users' = users /\ SECRET_KEY' = SECRET_KEY
                /\ \A j \in Conns \ {k} : conns'[j] = conns[j] ]_vars

\* Two requests with the tokens of two users are past the gate at the
\* same time, one of them answered by its handler meanwhile.
C20_Witness ==
    \E k, j \in Conns :
        /\ conns[k].authenticated /\ conns[k].ran
        /\ conns[k].seen.uid = "1"
        /\ conns[j].authenticated /\ conns[j].pc = "serving"
        /\ conns[j].keys.uid = "2"
        /\ conns[k].vt2 >= conns[j].vt2

----------------------------------------------------------------------------
(* Properties of SignUp and Login *)

\* The request r at the Login handler gives an email no document has, or
\* a password that is not the one hashed in the document found for its
\* email.
BadCredentials(r) ==
    /\ r.body.valid
    /\ \/ \A i \in 1..Len(users) : users[i].email # r.body.email
       \/ /\ r.body.hasPassword
          /\ \E i \in 1..Len(users) :
                /\ users[i].email = r.body.email
                /\ \A j \in 1..(i - 1) : users[j].email # r.body.email
                /\ users[i].Password # HashPassword(r.body.password)

\* C21: a Login with an unknown email or a password that does not match
\* the stored hash is answered with an error, GenerateAllTokens and
\* UpdateAllTokens are not called for it, and the user collection stays
\* as it was.  A body that binds without a password, for a registered
\* email, is not answered at all and mints nothing either.
C21_NoTokensWithoutCredentials ==
    [][ /\ (Current = "Login" /\ BadCredentials(req))
            => (/\ users' = users
                /\ req'.pc = "done"
                /\ req'.issued = NoPair
                /\ req'.status = StatusInternalServerError
                /\ req'.error # "")
        /\ (Current = "Login" /\ req.body.valid /\ ~req.body.hasPassword)
            => (/\ users' = users
                /\ req'.issued = NoPair) ]_vars

\* A Login for a registered email with a wrong password was refused.
C21_Witness ==
    /\ req.route = "POST /users/login" /\ req.pc = "done"
    /\ req.body.password = "wrong"
    /\ \E i \in 1..Len(users) : users[i].email = req.body.email
    /\ req.error = "login or password is incorrect"
    /\ req.issued = NoPair

\* C22: no two documents of the user collection have the same email, and
\* no two have the same phone number.
C22_EmailAndPhoneUnique ==
    \A i, j \in 1..Len(users) :
        i # j => /\ users[i].email # users[j].email
                 /\ users[i].phone # users[j].phone

\* The header of r is an access token GenerateAllTokens made for the user
\* of document i with the server's key, and not the one the document holds
\* now: a later Login has replaced it.
Overwritten(r, i) ==
    /\ Len(r.hdr) = 3
    /\ r.hdr # users[i].token
    /\ r.hdr = GenerateAllTokens(users[i].email, users[i].first_name,
                                 users[i].last_name, users[i].user_id,
                                 SECRET_KEY, IssuedAt(r.hdr),
                                 IssuedAt(r.hdr)).token

\* C23: an access token issued to a user by an earlier SignUp or Login is
\* accepted by the Auth Gate at every time before its expires_at, also
\* after a later Login of that user has replaced the stored pair; the
\* request carries the identity of that user.
C23_OverwrittenTokenStillAccepted ==
    \A i \in 1..Len(users) :
        (GateActed(req) /\ Overwritten(req, i) /\ req.vt2 < ExpiresAtOf(req.hdr))
        => /\ req.authenticated
           /\ req.keys = ContextKeys(Carried(req.hdr))
           /\ Carried(req.hdr).Uid = users[i].user_id

\* A request was authenticated, one minute before expiry, with a token
\* the collection no longer holds.
C23_Witness ==
    /\ req.pc = "done" /\ req.ran /\ req.authenticated
    /\ \E i \in 1..Len(users) : Overwritten(req, i)
    /\ req.vt2 = ExpiresAtOf(req.hdr) - 60

\* C24: the access token stored in a user document carries, as its Uid
\* claim, the user_id of that document, whatever SignUp and Login requests
\* have been served.
C24_StoredTokenNamesItsRecord ==
    \A i \in 1..Len(users) :
        /\ Len(users[i].token) = 3
        /\ Carried(users[i].token).Uid = users[i].user_id

\* With two users registered, a Login of the second has replaced the pair
\* of its document by a different one.
C24_Witness ==
    /\ Len(users) = 2
    /\ req.route = "POST /users/login" /\ req.pc = "done"
    /\ req.status = StatusOK
    /\ req.user.user_id = users[2].user_id
    /\ req.issued.token = users[2].token
    /\ req.user.token # users[2].token
    /\ Carried(users[2].token).Uid = users[2].user_id

====
